---- MODULE Spec2Model ----
(***************************************************************************)
(* The cooperative task scheduler of src/t2.py (CooperativeModel): a fixed *)
(* roster of capacity-bounded workers staffs, works on and retires a       *)
(* backlog of multi-resource tasks, one call of step() per simulated tick. *)
(*                                                                         *)
(* step() is followed statement by statement: the position inside the      *)
(* handler is pc, with the loop indices idx (outer staffing loop) and i    *)
(* (inner assignment loop).                                                *)
(*                                                                         *)
(* The two parking-lot simulations of the repository, src/Task_1.py        *)
(* (ParkingLotModel, Car) and src/t1.py (ParkingModel, CarAgent), are      *)
(* modelled by ParkingSpec: one action per agent step, the shuffled order  *)
(* of a model step being the order in which the cars leave `todo`.         *)
(***************************************************************************)
EXTENDS Integers, Sequences, FiniteSets, TLC

\* ------------------------------------------------------------------ bounds
\* The source creates 50 tasks (t2.py:34); the model draws 1..MaxTasks.
MaxTasks == 3
\* The source draws durations from 5..20 (t2.py:36); the model from MinDur..MaxDur.
MaxDur == 6
\* step() may be called for ever; the model stops calling it MaxIdleSteps
\* calls after the number of calls that the backlog can need at most.
MaxIdleSteps == 1

\* Both parking lots are 10 x 10 grids (Task_1.py:149, t1.py:9); the model's
\* grid is GridSize x GridSize.
GridSize == 2
\* N_cars is 10 or 15 in the source (Task_1.py:204, t1.py:7).
NumCars == 2
\* N_spaces is 5 in the source (Task_1.py:204, t1.py:8).
NumSpaces == 2

\* ------------------------------------------------------- program constants
\* randint(5, 20): the least initial duration.
MinDur == 5
\* random.choice([1, 2, 3])
ResourceChoices == {1, 2, 3}
\* configs: (capacity, name, pos), in roster order.
configs == << [capacity |-> 2, custom_id |-> "Agent 1"],
              [capacity |-> 1, custom_id |-> "Agent 2"],
              [capacity |-> 2, custom_id |-> "Agent 3"] >>

VARIABLES
    tasks,       \* self.tasks: id -> [duration, resources, assigned_agents, completed]
    workers,     \* self.workers: roster index -> [capacity, custom_id, current_tasks]
    step_count,  \* self.step_count
    pc,          \* position inside step(): idle | staffing | assigning | update | cleanup
    pending,     \* the list `pending` of line 56 (task ids)
    idx,         \* position of the outer loop of line 58 in `pending` (1-based)
    needed,      \* `needed` of line 59
    candidates,  \* `candidates` of lines 60-62 (roster indices)
    i,           \* `i` of the loop of line 65 (0-based, as in the source)
    active,      \* active_tasks_this_step (a set of task ids)
    log,         \* the status lines printed at line 78 in this step
    dur0,        \* the durations the tasks were created with (line 36)
    staffed_at   \* history: the step in which each task was fully staffed (0: not yet)

\* The parking lots. A car is [pos, state, park_timer, park_duration]; in
\* src/t1.py state = "PARKED" is `parked`, park_duration is `parking_duration`
\* and park_timer is not used. The search statistic (steps_searching,
\* search_times) is written by the cars and read by the data collector only;
\* it is left out.
VARIABLES
    variant,     \* which simulation runs: "Task_1" | "t1" ("none": the scheduler)
    space_pos,   \* parking space -> the cell it was placed on
    occupied,    \* parking space -> its `occupied` flag
    cars,        \* car -> [pos, state, park_timer, park_duration]
    todo,        \* the cars that have not yet stepped in the current model step
    lot_pc,      \* "boundary": between two calls of model.step(); "stepping": inside
    drawn,       \* history: the duration drawn when the car parked (0: not parked)
    stay         \* history: the model steps at whose end the car was parked, this stay

scheduler == << tasks, workers, step_count, pc, pending, idx, needed, candidates,
                i, active, log, dur0, staffed_at >>

lot == << variant, space_pos, occupied, cars, todo, lot_pc, drawn, stay >>

vars == << tasks, workers, step_count, pc, pending, idx, needed, candidates,
           i, active, log, dur0, staffed_at,
           variant, space_pos, occupied, cars, todo, lot_pc, drawn, stay >>

\* No parking lot is constructed while the scheduler runs.
LotAbsent ==
    /\ variant = "none"
    /\ space_pos = << >>
    /\ occupied = << >>
    /\ cars = << >>
    /\ todo = {}
    /\ lot_pc = "boundary"
    /\ drawn = << >>
    /\ stay = << >>

\* ----------------------------------------------------------------- helpers
Range(s) == { s[k] : k \in DOMAIN s }

TaskIds == DOMAIN tasks

Roster == DOMAIN workers

\* The ids 0..n-1 in creation order, as a sequence.
IdSeq(n) == [k \in 1..n |-> k - 1]

\* The roster indices in roster order, as a sequence.
RosterSeq == [k \in 1..Len(workers) |-> k]

\* Task(id, duration, resources)
Task(id, duration, resources) ==
    [id |-> id, duration |-> duration, resources |-> resources,
     assigned_agents |-> << >>, completed |-> FALSE]

\* WorkerAgent(model, capacity, unique_id)
WorkerAgent(capacity, unique_id) ==
    [capacity |-> capacity, custom_id |-> unique_id, current_tasks |-> << >>]

\* ------------------------------------------------------------------- Init
Init ==
    /\ \E n \in 1..MaxTasks :
         \E dur \in [0..(n - 1) -> MinDur..MaxDur],
            res \in [0..(n - 1) -> ResourceChoices] :
              /\ tasks = [t \in 0..(n - 1) |-> Task(t, dur[t], res[t])]
              /\ dur0 = dur
              /\ staffed_at = [t \in 0..(n - 1) |-> 0]
    /\ workers = [k \in 1..Len(configs) |->
                    WorkerAgent(configs[k].capacity, configs[k].custom_id)]
    /\ step_count = 0
    /\ pc = "idle"
    /\ pending = << >>
    /\ idx = 1
    /\ needed = 0
    /\ candidates = << >>
    /\ i = 0
    /\ active = {}
    /\ log = << >>
    /\ LotAbsent

\* ------------------------------------------------- 1. staffing (lines 56-68)
\* line 56: not t.completed and len(t.assigned_agents) < t.resources
IsPending(t) ==
    /\ ~ tasks[t].completed
    /\ Len(tasks[t].assigned_agents) < tasks[t].resources

\* Mutant of Pending: the tasks taken in descending id order.
PendingDescending ==
    LET asc == SelectSeq(IdSeq(Cardinality(TaskIds)), IsPending)
    IN  [k \in 1..Len(asc) |-> asc[Len(asc) + 1 - k]]

\* line 56: the list comprehension keeps the order of self.tasks (ascending id).
Pending == SelectSeq(IdSeq(Cardinality(TaskIds)), IsPending)

\* Mutant of Needed: as many workers as have spare capacity, when too few.
NeededAvailable(t) ==
    LET want == tasks[t].resources - Len(tasks[t].assigned_agents)
        have == Cardinality({ a \in DOMAIN workers :
                     Len(workers[a].current_tasks) < workers[a].capacity })
    IN  IF have < want THEN have ELSE want

\* Mutant of Needed: one worker too few (range(needed - 1)).
NeededOffByOne(t) == tasks[t].resources - Len(tasks[t].assigned_agents) - 1

\* line 59
Needed(t) == tasks[t].resources - Len(tasks[t].assigned_agents)

\* Mutant of HasSpare: <= for <.
HasSpareLeq(a) == Len(workers[a].current_tasks) <= workers[a].capacity

\* line 61: len(a.current_tasks) < a.capacity
HasSpare(a) == Len(workers[a].current_tasks) < workers[a].capacity

\* Mutant of Candidates: the capacity test of line 61 left out.
CandidatesAnyLoad(t) ==
    LET Ok(a) == a \notin Range(tasks[t].assigned_agents)
    IN  SelectSeq(RosterSeq, Ok)

\* lines 60-62: the list comprehension keeps the order of self.workers.
Candidates(t) ==
    LET Ok(a) == HasSpare(a) /\ a \notin Range(tasks[t].assigned_agents)
    IN  SelectSeq(RosterSeq, Ok)

\* Mutant of Enough: > for >=.
EnoughStrict(cands, n) == Len(cands) > n

\* line 64
Enough(cands, n) == Len(cands) >= n

\* Mutant of PickAgent: candidates taken from the end of the list.
PickAgentFromEnd(cands, k) == cands[Len(cands) - k]

\* Mutant of PickAgent: candidates[0] for candidates[i].
PickAgentFirst(cands, k) == cands[1]

\* line 66: candidates[i], 0-based in the source.
PickAgent(cands, k) == cands[k + 1]

\* The number of calls of step() the model makes: every call that finds work
\* left takes one unit from at least one task, so the backlog needs at most
\* the sum of the durations.
StepLimit == Cardinality(DOMAIN tasks) * MaxDur + MaxIdleSteps

\* lines 52-56: step_count += 1, the step marker, and the pending list.
BeginStep ==
    /\ pc = "idle"
    /\ step_count < StepLimit
    /\ step_count' = step_count + 1
    /\ pending' = Pending
    /\ idx' = 1
    /\ log' = << >>
    /\ active' = {}
    /\ pc' = "staffing"
    /\ UNCHANGED lot
    /\ UNCHANGED << tasks, workers, needed, candidates, i, dur0, staffed_at >>

\* Mutant of StaffCheck: the loop of line 58 is left (break) at the first
\* task that cannot be staffed.
StaffCheckBreaking ==
    /\ pc = "staffing"
    /\ idx <= Len(pending)
    /\ needed' = Needed(pending[idx])
    /\ candidates' = Candidates(pending[idx])
    /\ IF Enough(Candidates(pending[idx]), Needed(pending[idx]))
         THEN /\ pc' = "assigning"
              /\ i' = 0
              /\ idx' = idx
         ELSE /\ pc' = "staffing"
              /\ i' = i
              /\ idx' = Len(pending) + 1
    /\ UNCHANGED lot
    /\ UNCHANGED << tasks, workers, step_count, pending, active, log, dur0, staffed_at >>

\* lines 58-64: the next pending task; its need and its candidates; the test.
StaffCheck ==
    /\ pc = "staffing"
    /\ idx <= Len(pending)
    /\ LET t == pending[idx] IN
         /\ needed' = Needed(t)
         /\ candidates' = Candidates(t)
         /\ IF Enough(Candidates(t), Needed(t))
              THEN /\ pc' = "assigning"
                   /\ i' = 0
                   /\ idx' = idx
              ELSE /\ pc' = "staffing"
                   /\ i' = i
                   /\ idx' = idx + 1
    /\ UNCHANGED lot
    /\ UNCHANGED << tasks, workers, step_count, pending, active, log, dur0, staffed_at >>

\* Mutant of AssignOne: line 68 (task.assigned_agents.append) left out.
AssignOneWorkerOnly ==
    /\ pc = "assigning"
    /\ i < needed
    /\ workers' = [workers EXCEPT
                     ![PickAgent(candidates, i)].current_tasks =
                         Append(@, pending[idx])]
    /\ i' = i + 1
    /\ UNCHANGED lot
    /\ UNCHANGED << tasks, step_count, pc, pending, idx, needed, candidates,
                    active, log, dur0, staffed_at >>

\* lines 65-68: one iteration of `for i in range(needed)`.
AssignOne ==
    /\ pc = "assigning"
    /\ i < needed
    /\ LET t == pending[idx]
           agent == PickAgent(candidates, i)
       IN  /\ workers' = [workers EXCEPT ![agent].current_tasks = Append(@, t)]
           /\ tasks' = [tasks EXCEPT ![t].assigned_agents = Append(@, agent)]
           /\ staffed_at' =
                 IF Len(tasks[t].assigned_agents) + 1 = tasks[t].resources
                   THEN [staffed_at EXCEPT ![t] = step_count]
                   ELSE staffed_at
    /\ i' = i + 1
    /\ UNCHANGED lot
    /\ UNCHANGED << step_count, pc, pending, idx, needed, candidates, active,
                    log, dur0 >>

\* line 65: range(needed) is exhausted; back to the loop of line 58.
AssignDone ==
    /\ pc = "assigning"
    /\ i >= needed
    /\ idx' = idx + 1
    /\ pc' = "staffing"
    /\ UNCHANGED lot
    /\ UNCHANGED << tasks, workers, step_count, pending, needed, candidates,
                    i, active, log, dur0, staffed_at >>

\* ------------------------------------------------ 2. reporting (lines 70-79)
\* Mutant of AgentLines: a task is reported by its first assigned worker only.
AgentLinesPrimaryOnly(a) ==
    LET all == [k \in 1..Len(workers[a].current_tasks) |->
                  [agent |-> workers[a].custom_id,
                   task |-> workers[a].current_tasks[k],
                   duration |-> tasks[workers[a].current_tasks[k]].duration]]
        Primary(l) == tasks[l.task].assigned_agents[1] = a
    IN  SelectSeq(all, Primary)

\* The lines printed for one worker, in the order of its current_tasks.
AgentLines(a) ==
    [k \in 1..Len(workers[a].current_tasks) |->
        [agent |-> workers[a].custom_id,
         task |-> workers[a].current_tasks[k],
         duration |-> tasks[workers[a].current_tasks[k]].duration]]

RECURSIVE LinesUpTo(_)
\* The lines printed for the first n workers of the roster.
LinesUpTo(n) == IF n = 0 THEN << >> ELSE LinesUpTo(n - 1) \o AgentLines(n)

\* line 79: the set of the tasks found in some worker's current_tasks.
ActiveTasks == UNION { Range(workers[a].current_tasks) : a \in Roster }

\* Mutant of Report: the duration is decremented while reporting, once per
\* printed line.
ReportDecrementing ==
    /\ pc = "staffing"
    /\ idx > Len(pending)
    /\ log' = LinesUpTo(Len(workers))
    /\ active' = ActiveTasks
    /\ tasks' = [t \in TaskIds |->
                   [tasks[t] EXCEPT !.duration =
                       @ - Cardinality({ a \in Roster :
                                           t \in Range(workers[a].current_tasks) })]]
    /\ pc' = "update"
    /\ UNCHANGED lot
    /\ UNCHANGED << workers, step_count, pending, idx, needed, candidates, i,
                    dur0, staffed_at >>

\* lines 70-79: the reporting loop, and the set the update phase will visit.
Report ==
    /\ pc = "staffing"
    /\ idx > Len(pending)
    /\ log' = LinesUpTo(Len(workers))
    /\ active' = ActiveTasks
    /\ pc' = "update"
    /\ UNCHANGED lot
    /\ UNCHANGED << tasks, workers, step_count, pending, idx, needed,
                    candidates, i, dur0, staffed_at >>

\* --------------------------------------------------- 3. update (lines 81-85)
\* Mutant of NewDuration: one decrement per worker that lists the task.
NewDurationPerWorker(t) ==
    tasks[t].duration
      - Cardinality({ a \in Roster : t \in Range(workers[a].current_tasks) })

\* line 83: task.duration -= 1
NewDuration(t) == tasks[t].duration - 1

\* Mutant of IsDone: < for <=.
IsDoneStrict(d) == d < 0

\* Mutant of IsDone: completion one unit early.
IsDoneEarly(d) == d <= 1

\* line 84: task.duration <= 0
IsDone(d) == d <= 0

\* Mutant of Decremented: every task that has assigned workers.
DecrementedAssigned == { t \in TaskIds : tasks[t].assigned_agents # << >> }

\* Mutant of Decremented: every task that is not completed.
DecrementedUnfinished == { t \in TaskIds : ~ tasks[t].completed }

\* The tasks the loop of line 82 visits.
Decremented == active

Update ==
    /\ pc = "update"
    /\ tasks' = [t \in TaskIds |->
                   IF t \in Decremented
                     THEN [tasks[t] EXCEPT
                             !.duration = NewDuration(t),
                             !.completed = IF IsDone(NewDuration(t))
                                             THEN TRUE ELSE @]
                     ELSE tasks[t]]
    /\ pc' = "cleanup"
    /\ UNCHANGED lot
    /\ UNCHANGED << workers, step_count, pending, idx, needed, candidates, i,
                    active, log, dur0, staffed_at >>

\* -------------------------------------------------- 4. cleanup (lines 87-89)
\* Mutant of Retained: the filter of line 89 left out.
RetainedAll(a) == workers[a].current_tasks

\* Mutant of Retained: the test of line 89 inverted.
RetainedCompleted(a) ==
    LET Keep(t) == tasks[t].completed
    IN  SelectSeq(workers[a].current_tasks, Keep)

\* line 89: [t for t in agent.current_tasks if not t.completed]
Retained(a) ==
    LET Keep(t) == ~ tasks[t].completed
    IN  SelectSeq(workers[a].current_tasks, Keep)

\* Mutant of RetireWorker: a worker drops the completed tasks that still
\* name it in assigned_agents, and the first worker to drop a task empties
\* that task's assigned_agents.
RetireWorkerClearing(s, a) ==
    LET Gone(t) == s.tasks[t].completed /\ a \in Range(s.tasks[t].assigned_agents)
        Keep(t) == ~ Gone(t)
    IN  [tasks |-> [t \in DOMAIN s.tasks |->
                      IF Gone(t) /\ t \in Range(s.workers[a].current_tasks)
                        THEN [s.tasks[t] EXCEPT !.assigned_agents = << >>]
                        ELSE s.tasks[t]],
         workers |-> [s.workers EXCEPT
                        ![a].current_tasks = SelectSeq(@, Keep)]]

\* line 89 for one worker, on a given state s = [tasks, workers].
RetireWorker(s, a) ==
    LET Keep(t) == ~ s.tasks[t].completed
    IN  [tasks |-> s.tasks,
         workers |-> [s.workers EXCEPT
                        ![a].current_tasks = SelectSeq(@, Keep)]]

RECURSIVE CleanupInOrder(_, _)
\* lines 88-89: the loop over the workers, visited in the given order.
CleanupInOrder(s, order) ==
    IF order = << >> THEN s
    ELSE CleanupInOrder(RetireWorker(s, Head(order)), Tail(order))

\* lines 87-89: the loop over self.workers.
Cleanup ==
    /\ pc = "cleanup"
    /\ workers' = [a \in Roster |-> [workers[a] EXCEPT !.current_tasks = Retained(a)]]
    /\ pc' = "idle"
    /\ UNCHANGED lot
    /\ UNCHANGED << tasks, step_count, pending, idx, needed, candidates, i,
                    active, log, dur0, staffed_at >>

\* ------------------------------------------------------------------- Spec
Next ==
    \/ BeginStep
    \/ StaffCheck
    \/ AssignOne
    \/ AssignDone
    \/ Report
    \/ Update
    \/ Cleanup

Spec == Init /\ [][Next]_vars

\* step() runs to its end without blocking, and the driver keeps calling it.
FairSpec == Spec /\ WF_vars(Next)

\* ============================================================ parking lots
\* src/Task_1.py (ParkingLotModel, Car, ParkingSpace) and src/t1.py
\* (ParkingModel, CarAgent, ParkingAgent).

\* random.randint(3, 5) (Task_1.py:57, t1.py:38)
ParkDurations == 3..5

Cars == 1..NumCars

Spaces == 1..NumSpaces

\* The cells of MultiGrid(width, height, torus=False).
Cells == (0..(GridSize - 1)) \X (0..(GridSize - 1))

\* grid.get_neighborhood(pos, moore=True, include_center=False), no torus.
Neighborhood(p) ==
    { q \in Cells :
        /\ q # p
        /\ q[1] - p[1] \in {-1, 0, 1}
        /\ q[2] - p[2] \in {-1, 0, 1} }

\* Car(model) / CarAgent(model), placed on cell p.
Car(p) == [pos |-> p, state |-> "DRIVING", park_timer |-> 0, park_duration |-> 0]

\* The spaces lie on distinct cells (Task_1.py: random.sample; t1.py: placed
\* on an empty cell, before any car); the cars are placed on any cells.
ParkingInit ==
    /\ variant \in {"Task_1", "t1"}
    /\ space_pos \in { f \in [Spaces -> Cells] :
                         \A s, u \in Spaces : s # u => f[s] # f[u] }
    /\ occupied = [s \in Spaces |-> FALSE]
    /\ cars \in { [c \in Cars |-> Car(f[c])] : f \in [Cars -> Cells] }
    /\ todo = {}
    /\ lot_pc = "boundary"
    /\ drawn = [c \in Cars |-> 0]
    /\ stay = [c \in Cars |-> 0]
    /\ tasks = << >>
    /\ workers = << >>
    /\ step_count = 0
    /\ pc = "idle"
    /\ pending = << >>
    /\ idx = 1
    /\ needed = 0
    /\ candidates = << >>
    /\ i = 0
    /\ active = {}
    /\ log = << >>
    /\ dur0 = << >>
    /\ staffed_at = << >>

\* The cars and the flags of the spaces, as the helpers below transform them.
World == [cars |-> cars, occupied |-> occupied]

\* Mutant of FreeSpacesAt: the `occupied` test dropped.
AllSpacesAt(occ, p) == { s \in Spaces : space_pos[s] = p }

\* The ParkingSpace / ParkingAgent objects of cell p that are not occupied
\* (Task_1.py:50-52, t1.py:32-33).
FreeSpacesAt(occ, p) == { s \in Spaces : space_pos[s] = p /\ ~ occ[s] }

\* The first of them in the cell's list.
FirstSpace(free) == CHOOSE s \in free : \A u \in free : s <= u

\* grid.move_agent(self, new_position) (Task_1.py:35-44, t1.py:47-49)
move(w, c, q) == [w EXCEPT !.cars[c].pos = q]

\* Lines 76-80 of Task_1.py, 63-66 of t1.py: every space of the car's cell is
\* marked unoccupied.
Vacate(w, c) ==
    [w EXCEPT !.occupied =
        [s \in Spaces |-> IF space_pos[s] = w.cars[c].pos THEN FALSE
                                                          ELSE w.occupied[s]]]

\* Car.try_park (Task_1.py:46-60), d the duration drawn at line 57.
try_park(w, c, d) ==
    LET free == FreeSpacesAt(w.occupied, w.cars[c].pos)
    IN  IF free = {}
          THEN w
          ELSE [w EXCEPT !.occupied[FirstSpace(free)] = TRUE,
                         !.cars[c].state = "PARKED",
                         !.cars[c].park_duration = d,
                         !.cars[c].park_timer = 0]

\* CarAgent.try_to_park (t1.py:26-43), d the duration drawn at line 38.
try_to_park(w, c, d) ==
    LET free == FreeSpacesAt(w.occupied, w.cars[c].pos)
    IN  IF free = {}
          THEN w
          ELSE [w EXCEPT !.cars[c].state = "PARKED",
                         !.occupied[FirstSpace(free)] = TRUE,
                         !.cars[c].park_duration = d]

\* CarAgent.move (t1.py:45-53): the move, then try_to_park at once.
CarAgent_move(w, c, q, d) == try_to_park(move(w, c, q), c, d)

\* Task_1.py:71: self.park_timer >= self.park_duration
TimeUp(car) == car.park_timer >= car.park_duration

\* t1.py:57: self.parking_duration > 0
TimeLeft(car) == car.park_duration > 0

\* The world w after the step of car c becomes the state; the history of c
\* starts anew when c has parked in this step and is cleared when c drives.
Commit(c, w) ==
    LET now == w.cars[c]
        fresh == cars[c].state # "PARKED" \/ now.pos # cars[c].pos
    IN  /\ cars' = w.cars
        /\ occupied' = w.occupied
        /\ drawn' = [drawn EXCEPT ![c] =
                        IF now.state # "PARKED" THEN 0
                        ELSE IF fresh THEN now.park_duration ELSE @]
        /\ stay' = [stay EXCEPT ![c] =
                        IF now.state # "PARKED" \/ fresh THEN 0 ELSE @]

\* ParkingLotModel.step / ParkingModel.step: shuffle_do("step") starts; the
\* order of the agents is any order. The steps of the spaces do nothing.
ShuffleDo ==
    /\ lot_pc = "boundary"
    /\ lot_pc' = "stepping"
    /\ todo' = Cars
    /\ UNCHANGED << variant, space_pos, occupied, cars, drawn, stay >>
    /\ UNCHANGED scheduler

\* Car.step (Task_1.py:62-83), q the cell and d the duration drawn in it.
Car_step(c) ==
    /\ variant = "Task_1"
    /\ lot_pc = "stepping"
    /\ c \in todo
    /\ \E q \in Neighborhood(cars[c].pos), d \in ParkDurations :
          LET timed == [World EXCEPT !.cars[c].park_timer = @ + 1]
              left == [timed EXCEPT !.cars[c].state = "DRIVING"]
          IN  Commit(c,
                 IF cars[c].state = "DRIVING"
                   THEN try_park(move(World, c, q), c, d)
                   ELSE IF TimeUp(timed.cars[c])
                          THEN move(Vacate(left, c), c, q)
                          ELSE timed)
    /\ todo' = todo \ {c}
    /\ UNCHANGED << variant, space_pos, lot_pc >>
    /\ UNCHANGED scheduler

\* CarAgent.step (t1.py:55-74), q the cell and d the duration drawn in it.
CarAgent_step(c) ==
    /\ variant = "t1"
    /\ lot_pc = "stepping"
    /\ c \in todo
    /\ \E q \in Neighborhood(cars[c].pos), d \in ParkDurations :
          LET waited == [World EXCEPT !.cars[c].park_duration = @ - 1]
              left == [World EXCEPT !.cars[c].state = "DRIVING"]
              parked_here == try_to_park(World, c, d)
          IN  Commit(c,
                 IF cars[c].state = "PARKED"
                   THEN IF TimeLeft(cars[c])
                          THEN waited
                          ELSE CarAgent_move(Vacate(left, c), c, q, d)
                   ELSE IF parked_here # World
                          THEN parked_here
                          ELSE CarAgent_move(World, c, q, d))
    /\ todo' = todo \ {c}
    /\ UNCHANGED << variant, space_pos, lot_pc >>
    /\ UNCHANGED scheduler

\* shuffle_do returns and with it model.step(): a model step has ended, and
\* the cars parked now are parked at its end.
StepReturn ==
    /\ lot_pc = "stepping"
    /\ todo = {}
    /\ lot_pc' = "boundary"
    /\ stay' = [c \in Cars |-> IF cars[c].state = "PARKED" THEN stay[c] + 1
                                                          ELSE stay[c]]
    /\ UNCHANGED << variant, space_pos, occupied, cars, todo, drawn >>
    /\ UNCHANGED scheduler

ParkingNext ==
    \/ ShuffleDo
    \/ \E c \in Cars : Car_step(c)
    \/ \E c \in Cars : CarAgent_step(c)
    \/ StepReturn

ParkingSpec == ParkingInit /\ [][ParkingNext]_vars

\* ================================================================ claims
\* A step boundary: no call of step() is in progress.
AtBoundary == pc = "idle"

\* Inside the staffing phase (lines 56-68).
InStaffing == pc \in {"staffing", "assigning"}

\* Task t is fully staffed.
Staffed(t) == Len(tasks[t].assigned_agents) = tasks[t].resources

\* Worker a lists task t.
Lists(a, t) == t \in Range(workers[a].current_tasks)

\* C1 - Capacity invariant: in every reachable state, the states inside the
\* staffing phase included, every worker has len(current_tasks) <= capacity.
C1_Capacity ==
    \A a \in Roster : Len(workers[a].current_tasks) <= workers[a].capacity

\* C1 witness: inside the inner assignment loop, every worker is at capacity.
C1_Witness ==
    /\ pc = "assigning"
    /\ i > 0
    /\ \A a \in Roster : Len(workers[a].current_tasks) = workers[a].capacity

\* C2 - All-or-nothing staffing: at every step boundary each task has 0 or
\* `resources` assigned workers; every task selected as pending and not yet
\* processed has zero assigned workers, and `needed` is the full requirement.
C2_AllOrNothing ==
    /\ AtBoundary =>
         \A t \in TaskIds :
            Len(tasks[t].assigned_agents) \in {0, tasks[t].resources}
    /\ pc = "staffing" =>
         /\ \A k \in idx..Len(pending) : tasks[pending[k]].assigned_agents = << >>
         /\ idx > 1 => needed = tasks[pending[idx - 1]].resources
    /\ pc = "assigning" =>
         /\ \A k \in (idx + 1)..Len(pending) :
               tasks[pending[k]].assigned_agents = << >>
         /\ needed = tasks[pending[idx]].resources

\* C2 witness: a boundary after a step, with a cooperative task fully staffed
\* and another task left with no worker.
C2_Witness ==
    /\ AtBoundary
    /\ step_count > 0
    /\ \E t \in TaskIds : tasks[t].resources > 1 /\ Staffed(t)
    /\ \E t \in TaskIds : tasks[t].assigned_agents = << >>

\* C3 - Single decrement: the update phase takes exactly 1 from the duration
\* of every task that is staffed and not completed, whatever its requirement
\* and however many workers list it, and leaves every other task's duration;
\* no other statement of step() changes a duration.
C3_SingleDecrement ==
    [][ \A t \in TaskIds :
          tasks'[t].duration =
             IF pc = "update" /\ Staffed(t) /\ ~ tasks[t].completed
               THEN tasks[t].duration - 1
               ELSE tasks[t].duration ]_vars

\* C3 witness: after an update, a task worked on by three workers has lost
\* one unit per step and an unstaffed task has lost nothing.
C3_Witness ==
    /\ pc = "cleanup"
    /\ \E t \in TaskIds :
          /\ tasks[t].resources = 3
          /\ Cardinality({ a \in Roster : Lists(a, t) }) = 3
          /\ tasks[t].duration = dur0[t] - 2
          /\ step_count > 2
    /\ \E t \in TaskIds :
          tasks[t].assigned_agents = << >> /\ tasks[t].duration = dur0[t]

\* C4 - Completion closure: a completed task is in no worker's current_tasks
\* at any step boundary, is never in the pending list of a later step, and
\* its completed flag, duration and staffing never change again.
C4_CompletionClosure ==
    /\ [](AtBoundary =>
            \A t \in TaskIds : tasks[t].completed =>
               \A a \in Roster : ~ Lists(a, t))
    /\ [](InStaffing =>
            \A k \in 1..Len(pending) : ~ tasks[pending[k]].completed)
    /\ [][ \A t \in TaskIds : tasks[t].completed =>
              /\ tasks'[t] = tasks[t]
              /\ \A a \in Roster :
                    Len(workers'[a].current_tasks) > Len(workers[a].current_tasks)
                       => workers'[a].current_tasks[Len(workers'[a].current_tasks)] # t
         ]_vars

\* C4 witness: a later step is staffing other tasks while a task is completed.
C4_Witness ==
    /\ pc = "assigning"
    /\ i > 0
    /\ \E t \in TaskIds : tasks[t].completed

\* The workers with spare capacity when task t was processed, in roster order:
\* since then the inner loop has only appended t itself.
SpareWhenProcessed(t) ==
    LET Others(a) == SelectSeq(workers[a].current_tasks, LAMBDA u : u # t)
        Ok(a) == Len(Others(a)) < workers[a].capacity
    IN  SelectSeq(RosterSeq, Ok)

\* C5 - Deterministic worker tie-break: the workers a task is staffed with
\* are the first `needed` workers, in roster order, among those with spare
\* capacity when the task was processed.
C5_RosterOrder ==
    pc = "assigning" =>
       /\ Len(SpareWhenProcessed(pending[idx])) >= needed
       /\ tasks[pending[idx]].assigned_agents =
             SubSeq(SpareWhenProcessed(pending[idx]), 1, i)
       /\ i <= needed

\* C5 witness: a two-worker task has been staffed with the second and third
\* workers, the first one being saturated.
C5_Witness ==
    /\ pc = "assigning"
    /\ i = needed
    /\ needed = 2
    /\ tasks[pending[idx]].assigned_agents = << 2, 3 >>

\* The end-to-end example: tasks id0 (5, 1), id1 (6, 2), id2 (5, 1) as
\* (duration, resources); the roster A, B, C is workers 1, 2, 3 of configs.
Example ==
    /\ TaskIds = 0..2
    /\ dur0 = (0 :> 5 @@ 1 :> 6 @@ 2 :> 5)
    /\ tasks[0].resources = 1
    /\ tasks[1].resources = 2
    /\ tasks[2].resources = 1

\* The staffing phase of the example's first step is over.
ExampleStep1Staffed == Example /\ step_count = 1 /\ pc \in {"update", "cleanup", "idle"}

\* C6 as stated - Example, step 1: id0 -> A, id1 -> {A, C}, id2 -> B.
C6_Original ==
    ExampleStep1Staffed =>
       /\ tasks[0].assigned_agents = << 1 >>
       /\ Range(tasks[1].assigned_agents) = {1, 3}
       /\ tasks[2].assigned_agents = << 2 >>

\* C6 as amended - Example, step 1: id0 -> A, id1 -> {A, B}, id2 -> C
\* (B has spare capacity when id1 is processed, so B precedes C).
C6_Step1Assignment ==
    ExampleStep1Staffed =>
       /\ tasks[0].assigned_agents = << 1 >>
       /\ tasks[1].assigned_agents = << 1, 2 >>
       /\ tasks[2].assigned_agents = << 3 >>
       /\ workers[1].current_tasks = << 0, 1 >>
       /\ workers[2].current_tasks = << 1 >>
       /\ workers[3].current_tasks = << 2 >>

\* C6 witness: the example, right after the staffing phase of step 1.
C6_Witness == Example /\ step_count = 1 /\ pc = "update"

\* C7 - Example, timeline: the three tasks are staffed in step 1 and
\* decremented in it (4, 5, 4 after step 1); id0 and id2 complete with
\* duration 0 at the end of step 5, not before, and leave their workers'
\* current_tasks; id1 completes at the end of step 6, not before.
C7_Timeline ==
    Example =>
       /\ (step_count = 1 /\ pc = "update") =>
             /\ \A t \in TaskIds : Staffed(t) /\ t \in active
             /\ tasks[0].duration = 5 /\ tasks[1].duration = 6 /\ tasks[2].duration = 5
       /\ (step_count = 1 /\ pc \in {"cleanup", "idle"}) =>
             tasks[0].duration = 4 /\ tasks[1].duration = 5 /\ tasks[2].duration = 4
       /\ (AtBoundary /\ step_count < 5) =>
             \A t \in TaskIds : ~ tasks[t].completed
       /\ (AtBoundary /\ step_count = 5) =>
             /\ tasks[0].completed /\ tasks[0].duration = 0
             /\ tasks[2].completed /\ tasks[2].duration = 0
             /\ \A a \in Roster : ~ Lists(a, 0) /\ ~ Lists(a, 2)
             /\ ~ tasks[1].completed /\ tasks[1].duration = 1
       /\ (AtBoundary /\ step_count >= 6) =>
             /\ \A t \in TaskIds : tasks[t].completed /\ tasks[t].duration = 0
             /\ \A a \in Roster : workers[a].current_tasks = << >>

\* C7 witness: the example at the end of step 6, id1 just completed.
C7_Witness ==
    /\ Example
    /\ AtBoundary
    /\ step_count = 6
    /\ tasks[1].completed

\* Worker a is saturated.
Saturated(a) == Len(workers[a].current_tasks) = workers[a].capacity

\* C8 - Starvation: with capacities (2, 1, 2), a pending three-worker task
\* processed while some worker is saturated stays unstaffed and no worker
\* gains it; it gets its first worker only when all three workers have spare
\* capacity.
C8_Starvation ==
    [][ \A t \in TaskIds : tasks[t].resources = 3 =>
          /\ ( /\ pc = "staffing"
               /\ idx <= Len(pending)
               /\ pending[idx] = t
               /\ \E a \in Roster : Saturated(a) )
             => /\ tasks'[t].assigned_agents = << >>
                /\ workers' = workers
                /\ pc' = "staffing"
                /\ idx' = idx + 1
          /\ ( /\ tasks[t].assigned_agents = << >>
               /\ tasks'[t].assigned_agents # << >> )
             => \A a \in Roster :
                   Len(workers[a].current_tasks) < workers[a].capacity
      ]_vars

\* C8 witness: a three-worker task that step 1 left unstaffed has been
\* staffed with all three workers in a later step.
C8_Witness ==
    /\ pc = "assigning"
    /\ step_count > 1
    /\ tasks[pending[idx]].resources = 3
    /\ i = 3
    /\ Len(tasks[pending[idx]].assigned_agents) = 3

C10_CompletedIffZero ==
    AtBoundary =>
       \A t \in TaskIds : tasks[t].completed <=> tasks[t].duration <= 0

\* C10 witness: a boundary with a completed task and a task still in work.
C10_Witness ==
    /\ AtBoundary
    /\ \E t \in TaskIds : tasks[t].completed
    /\ \E t \in TaskIds :
          /\ ~ tasks[t].completed
          /\ Staffed(t)
          /\ tasks[t].duration < dur0[t]

\* C11 - Back-reference consistency: in every state between two statements
\* of step() that the model separates (every phase boundary among them), a
\* task in a worker's current_tasks has that worker in its assigned_agents.
C11_BackReference ==
    \A a \in Roster : \A t \in TaskIds :
       Lists(a, t) => a \in Range(tasks[t].assigned_agents)

\* C11 witness: the boundary between the update and the cleanup phase, with a
\* task just completed that two workers still list.
C11_Witness ==
    /\ pc = "cleanup"
    /\ \E t \in TaskIds :
          /\ tasks[t].completed
          /\ Cardinality({ a \in Roster : Lists(a, t) }) >= 2

\* The state of a task in the spec's per-task state machine.
TaskState(t) ==
    IF tasks[t].completed THEN "COMPLETED"
    ELSE IF Staffed(t) THEN "STAFFED"
    ELSE "UNSTAFFED"

\* The state of a task after the transition.
TaskStateNext(t) ==
    IF tasks'[t].completed THEN "COMPLETED"
    ELSE IF Len(tasks'[t].assigned_agents) = tasks'[t].resources THEN "STAFFED"
    ELSE "UNSTAFFED"

\* C12 - Per-task state machine: a task changes state only from UNSTAFFED to
\* STAFFED, in the staffing phase, and from STAFFED to COMPLETED, in the
\* update phase with its duration reaching zero; never STAFFED to UNSTAFFED,
\* never UNSTAFFED to COMPLETED, and COMPLETED is terminal.
C12_StateMachine ==
    [][ \A t \in TaskIds :
          TaskStateNext(t) # TaskState(t) =>
             \/ /\ TaskState(t) = "UNSTAFFED"
                /\ TaskStateNext(t) = "STAFFED"
                /\ pc = "assigning"
             \/ /\ TaskState(t) = "STAFFED"
                /\ TaskStateNext(t) = "COMPLETED"
                /\ pc = "update"
                /\ tasks'[t].duration = 0
      ]_vars

\* C12 witness: a boundary with a task in each of the three states.
C12_Witness ==
    /\ AtBoundary
    /\ \E t \in TaskIds : TaskState(t) = "COMPLETED"
    /\ \E t \in TaskIds : TaskState(t) = "STAFFED"
    /\ \E t \in TaskIds : TaskState(t) = "UNSTAFFED"

\* A sequence without repeated elements.
NoRepeat(s) == Cardinality(Range(s)) = Len(s)

\* C14 - No capacity violation: no transition appends a task to a worker that
\* is at capacity or already lists it, nor a worker to a task that already
\* has it; no worker is twice in an assigned_agents list and no task twice in
\* a current_tasks list.
C14_NoCapacityViolation ==
    /\ [](\A t \in TaskIds : NoRepeat(tasks[t].assigned_agents))
    /\ [](\A a \in Roster : NoRepeat(workers[a].current_tasks))
    /\ [][ \A a \in Roster : \A t \in TaskIds :
             /\ Len(workers'[a].current_tasks) > Len(workers[a].current_tasks) =>
                   /\ Len(workers[a].current_tasks) < workers[a].capacity
                   /\ ~ Lists(a, workers'[a].current_tasks[Len(workers'[a].current_tasks)])
             /\ Len(tasks'[t].assigned_agents) > Len(tasks[t].assigned_agents) =>
                   tasks'[t].assigned_agents[Len(tasks'[t].assigned_agents)]
                      \notin Range(tasks[t].assigned_agents)
         ]_vars

\* C14 witness: a three-worker task fully staffed, the first worker taking it
\* as its second task.
C14_Witness ==
    /\ pc = "assigning"
    /\ i = 3
    /\ Len(workers[1].current_tasks) = 2
    /\ tasks[pending[idx]].assigned_agents = << 1, 2, 3 >>

\* C16 - The reporting phase is read-only: the step from the end of the
\* staffing phase to the start of the update phase changes no task's
\* duration, completed flag or assigned_agents and no worker's current_tasks.
C16_ReportReadOnly ==
    [][ (pc = "staffing" /\ idx > Len(pending)) =>
           /\ pc' = "update"
           /\ tasks' = tasks
           /\ workers' = workers ]_vars

\* C16 witness: the reporting phase has printed lines for a cooperative task.
C16_Witness ==
    /\ pc = "update"
    /\ Len(log) >= 3
    /\ \E t \in TaskIds : tasks[t].resources > 1 /\ t \in active

\* The task and worker state the cleanup phase works on.
CleanupState == [tasks |-> tasks, workers |-> workers]

\* Every order in which the workers of the roster can be visited.
RosterOrders ==
    { p \in [1..Len(workers) -> Roster] :
         \A j, k \in 1..Len(workers) : j # k => p[j] # p[k] }

\* C17 - Cleanup order independence: from every state at the start of the
\* cleanup phase, visiting the workers in any order gives the task and worker
\* state the cleanup phase produces, and a second cleanup changes nothing.
C17_CleanupOrder ==
    /\ [](pc = "cleanup" =>
            /\ \A p \in RosterOrders :
                  CleanupInOrder(CleanupState, p)
                     = CleanupInOrder(CleanupState, RosterSeq)
            /\ CleanupInOrder(CleanupInOrder(CleanupState, RosterSeq), RosterSeq)
                  = CleanupInOrder(CleanupState, RosterSeq))
    /\ [][ pc = "cleanup" =>
              [tasks |-> tasks', workers |-> workers']
                 = CleanupInOrder(CleanupState, RosterSeq) ]_vars

\* C17 witness: the cleanup phase starts with two completed tasks, listed by
\* different workers.
C17_Witness ==
    /\ pc = "cleanup"
    /\ \E t, u \in TaskIds : \E a, b \in Roster :
          /\ t # u /\ a # b
          /\ tasks[t].completed /\ tasks[u].completed
          /\ Lists(a, t) /\ Lists(b, u)

\* The number of workers with spare capacity.
SpareCount ==
    Cardinality({ a \in Roster : Len(workers[a].current_tasks) < workers[a].capacity })

\* The tasks of the pending list that this step has processed and left
\* without a worker.
Skipped ==
    { t \in TaskIds :
         /\ \E k \in 1..Len(pending) : k < idx /\ pending[k] = t
         /\ tasks[t].assigned_agents = << >> }

\* C18 - No partial commitment: processing a pending task for which fewer
\* than `needed` workers have spare capacity changes no task and no worker;
\* the task's record stays as it is through the rest of the step, and the
\* next step selects it as pending again.
C18_NoPartialCommitment ==
    [][ /\ ( /\ pc = "staffing"
             /\ idx <= Len(pending)
             /\ SpareCount < tasks[pending[idx]].resources
                                - Len(tasks[pending[idx]].assigned_agents) )
           => /\ tasks' = tasks
              /\ workers' = workers
              /\ pc' = "staffing"
              /\ idx' = idx + 1
        /\ \A t \in Skipped :
              /\ tasks'[t] = tasks[t]
              /\ (pc = "idle" /\ pc' = "staffing") =>
                    \E k \in 1..Len(pending') : pending'[k] = t
      ]_vars

\* C18 witness: in a later step, the first pending task has been skipped
\* again, with the duration it was created with.
C18_Witness ==
    /\ pc = "staffing"
    /\ step_count >= 2
    /\ idx = 2
    /\ pending[1] \in Skipped
    /\ tasks[pending[1]].duration = dur0[pending[1]]

\* The position of task t in the pending list.
PosOf(t) == CHOOSE k \in 1..Len(pending) : pending[k] = t

\* The workers as they were when pending[k] was processed, seen from the end
\* of the staffing phase: the tasks of pending[k..] were not yet listed.
WorkersBefore(k) ==
    [a \in Roster |->
        [workers[a] EXCEPT !.current_tasks =
            SelectSeq(@, LAMBDA u : ~ \E j \in k..Len(pending) : pending[j] = u)]]

\* The workers of ws that have spare capacity.
SpareIn(ws) == { a \in DOMAIN ws : Len(ws[a].current_tasks) < ws[a].capacity }

\* Task t can be staffed from the spare capacity of ws.
FitsIn(ws, t) == Cardinality(SpareIn(ws)) >= tasks[t].resources

\* ws after staffing t with the first workers, in roster order, that have
\* spare capacity.
StaffIn(ws, t) ==
    [a \in DOMAIN ws |->
        IF /\ a \in SpareIn(ws)
           /\ Cardinality({ b \in SpareIn(ws) : b < a }) < tasks[t].resources
          THEN [ws[a] EXCEPT !.current_tasks = Append(@, t)]
          ELSE ws[a]]

\* From ws, t or u can be staffed alone, but not t and then u.
OneButNotBoth(ws, t, u) ==
    /\ FitsIn(ws, t)
    /\ FitsIn(ws, u)
    /\ ~ FitsIn(StaffIn(ws, t), u)

\* The staffing phase of the step is over and nothing else has changed.
StaffingOver == pc = "update"

\* C19 as stated - of two pending tasks that could each be staffed alone from
\* the spare capacity at the start of the step, but not both, the one with
\* the lower id is staffed in the step and the other is not.
C19_Original ==
    StaffingOver =>
       \A t, u \in Range(pending) :
          (t < u /\ OneButNotBoth(WorkersBefore(1), t, u)) =>
             /\ tasks[t].assigned_agents # << >>
             /\ tasks[u].assigned_agents = << >>

\* C19 as amended - the pending list is in ascending id order, and of two
\* pending tasks that could each be staffed alone from the spare capacity
\* available when the lower-id one is processed, but not both, the one with
\* the lower id is staffed in the step and the other is not.
C19_PriorityById ==
    /\ \A j, k \in 1..Len(pending) : j < k => pending[j] < pending[k]
    /\ StaffingOver =>
          \A t, u \in Range(pending) :
             (t < u /\ OneButNotBoth(WorkersBefore(PosOf(t)), t, u)) =>
                /\ tasks[t].assigned_agents # << >>
                /\ tasks[u].assigned_agents = << >>

\* C19 witness: after a staffing phase, a two-worker task was staffed and a
\* higher-id task that fitted alone was not, a lower-id task having been
\* staffed before both.
C19_Witness ==
    /\ StaffingOver
    /\ \E t, u \in Range(pending) :
          /\ t < u
          /\ PosOf(t) > 1
          /\ tasks[pending[1]].assigned_agents # << >>
          /\ OneButNotBoth(WorkersBefore(PosOf(t)), t, u)
          /\ tasks[t].resources = 2
          /\ tasks[t].assigned_agents # << >>
          /\ tasks[u].assigned_agents = << >>

\* The roster index of the worker named in a printed line.
RosterIndexOf(name) == CHOOSE a \in Roster : workers[a].custom_id = name

\* The printed lines of this step that name worker a and task t.
LinesFor(a, t) ==
    { k \in 1..Len(log) : log[k].agent = workers[a].custom_id /\ log[k].task = t }

\* The printed lines of this step that name task t.
LinesOf(t) == { k \in 1..Len(log) : log[k].task = t }

\* C20 - Progress reporting: after the reporting phase the step has printed
\* exactly one line per (worker, task) with the task in the worker's
\* current_tasks, in roster order, with the task's duration before the
\* step's decrement; a task with k workers has k lines, and a task staffed in
\* the step is reported in it.
C20_ProgressReporting ==
    /\ pc = "update" =>
         /\ \A a \in Roster : \A t \in TaskIds :
               Cardinality(LinesFor(a, t)) = IF Lists(a, t) THEN 1 ELSE 0
         /\ Len(log) = Cardinality({ p \in Roster \X TaskIds : Lists(p[1], p[2]) })
         /\ \A j, k \in 1..Len(log) :
               j < k => RosterIndexOf(log[j].agent) <= RosterIndexOf(log[k].agent)
         /\ \A k \in 1..Len(log) : log[k].duration = tasks[log[k].task].duration
         /\ \A t \in TaskIds :
               (Staffed(t) /\ ~ tasks[t].completed) =>
                  Cardinality(LinesOf(t)) = tasks[t].resources
         /\ \A t \in Range(pending) :
               tasks[t].assigned_agents # << >> => LinesOf(t) # {}
    /\ pc = "cleanup" =>
         \A k \in 1..Len(log) : log[k].duration = tasks[log[k].task].duration + 1

\* C20 witness: the first step has printed five lines, three of them for a
\* three-worker task staffed in this step.
C20_Witness ==
    /\ pc = "update"
    /\ step_count = 1
    /\ Len(log) = 5
    /\ \E t \in Range(pending) :
          tasks[t].resources = 3 /\ Cardinality(LinesOf(t)) = 3

\* The backlog is exhausted and every worker is idle.
AllDone ==
    /\ \A t \in TaskIds : tasks[t].completed
    /\ \A a \in Roster : workers[a].current_tasks = << >>

\* C21 - Backlog exhaustion: repeated calls of step() reach a state where
\* every task is completed and every worker's current_tasks is empty, and
\* from then on no step changes a task or a worker.
C21_BacklogExhaustion ==
    /\ <>AllDone
    /\ [][ AllDone => (AllDone' /\ tasks' = tasks /\ workers' = workers) ]_vars

\* C21 witness: a whole step has run on the exhausted backlog, three
\* three-worker tasks having been worked off one after the other.
C21_Witness ==
    /\ AllDone
    /\ AtBoundary
    /\ log = << >>
    /\ step_count > 3 * MinDur
    /\ \A t \in TaskIds : tasks[t].resources = 3

\* C22 - Greedy maximality: at the end of the staffing phase every task
\* that is still pending needs more workers than have spare capacity, and a
\* pending task that fitted the spare capacity at its turn has been staffed,
\* whatever lower-id tasks were skipped before it.
C22_GreedyMaximality ==
    StaffingOver =>
       /\ \A t \in TaskIds : IsPending(t) => Needed(t) > SpareCount
       /\ \A u \in Range(pending) :
             FitsIn(WorkersBefore(PosOf(u)), u) => Staffed(u)

\* C22 witness: a staffing phase has skipped a task and staffed one with a
\* higher id.
C22_Witness ==
    /\ StaffingOver
    /\ \E t, u \in Range(pending) :
          /\ t < u
          /\ tasks[t].assigned_agents = << >>
          /\ Staffed(u)

\* The step at the end of which a task staffed in step staffed_at with the
\* duration it was created with is due to complete.
DueStep(t) == staffed_at[t] + dur0[t] - 1

\* C23 - No preemption: once a task is staffed its assigned_agents never
\* changes, and until it completes it is in the current_tasks of each of its
\* assigned workers; staffed in step s with duration d, it completes in the
\* update phase of step s + d - 1, and at no other step.
C23_NoPreemption ==
    /\ [](\A t \in TaskIds :
            (Staffed(t) /\ ~ tasks[t].completed) =>
               /\ staffed_at[t] > 0
               /\ \A a \in Range(tasks[t].assigned_agents) : Lists(a, t))
    /\ [](AtBoundary =>
            \A t \in TaskIds :
               Staffed(t) => (tasks[t].completed <=> step_count >= DueStep(t)))
    /\ [][ \A t \in TaskIds :
             /\ Staffed(t) =>
                   tasks'[t].assigned_agents = tasks[t].assigned_agents
             /\ (~ tasks[t].completed /\ tasks'[t].completed) =>
                   /\ pc = "update"
                   /\ step_count = DueStep(t)
         ]_vars

\* C23 witness: a six-unit task staffed after the first step has completed,
\* five steps after the step that staffed it.
C23_Witness ==
    /\ AtBoundary
    /\ \E t \in TaskIds :
          /\ tasks[t].completed
          /\ dur0[t] = 6
          /\ staffed_at[t] > 1
          /\ step_count = staffed_at[t] + 5

\* ------------------------------------------------ parking-lot claims
Parked(c) == cars[c].state = "PARKED"

\* The cars parked on the cell of space s.
ParkedOn(s) == { c \in Cars : Parked(c) /\ cars[c].pos = space_pos[s] }

\* Car c takes its step of the current model step.
Steps(c) == c \in todo /\ c \notin todo'

\* Car c, parked, leaves its space in this step.
LeavesNow(c) ==
    /\ Steps(c)
    /\ Parked(c)
    /\ (cars'[c].state # "PARKED" \/ cars'[c].pos # cars[c].pos)

\* C24 - Parking duration, as the claim states it for both simulations: a car
\* that parks with a drawn duration d in 3..5 is parked at the end of exactly
\* d consecutive model steps, the step in which it parks counted first: it is
\* never parked at the end of more than d, its step after the d-th is the one
\* in which it leaves, and that step leaves the space of its cell unoccupied.
C24_ParkingDuration ==
    /\ [](\A c \in Cars :
            Parked(c) => (drawn[c] \in ParkDurations /\ stay[c] <= drawn[c]))
    /\ [][ \A c \in Cars :
             (Steps(c) /\ Parked(c)) =>
                /\ LeavesNow(c) <=> stay[c] = drawn[c]
                /\ LeavesNow(c) =>
                     \A s \in Spaces :
                        space_pos[s] = cars[c].pos => ~ occupied'[s]
         ]_vars

\* C24 witness of the divergence: in src/t1.py a car that drew d is parked at
\* the end of d + 1 model steps.
C24_Witness ==
    /\ variant = "t1"
    /\ lot_pc = "boundary"
    /\ \E c \in Cars : Parked(c) /\ stay[c] = drawn[c] + 1

\* C25 - Parking-space mutual exclusion: after every agent step, under every
\* order of the agents, a space is occupied if and only if exactly one parked
\* car is on its cell; no two parked cars are on the cell of one space; and a
\* step that marks a space unoccupied is the step of the one car that was
\* parked on it, which leaves, so that no parked car is left on it.
C25_MutualExclusion ==
    /\ [](\A s \in Spaces :
            /\ occupied[s] <=> Cardinality(ParkedOn(s)) = 1
            /\ Cardinality(ParkedOn(s)) <= 1)
    /\ [][ \A s \in Spaces :
             (occupied[s] /\ ~ occupied'[s]) =>
                /\ \E c \in Cars : ParkedOn(s) = {c} /\ LeavesNow(c)
                /\ \A c \in Cars :
                      ~ (cars'[c].state = "PARKED" /\ cars'[c].pos = space_pos[s])
         ]_vars

\* C25 witness: a car is parked on an occupied space while another car, not
\* parked, stands on the same cell and has taken its step.
C25_Witness ==
    \E s \in Spaces, c, b \in Cars :
       /\ occupied[s]
       /\ ParkedOn(s) = {c}
       /\ b # c
       /\ cars[b].pos = space_pos[s]
       /\ ~ Parked(b)
       /\ lot_pc = "stepping"
       /\ b \notin todo

====
